---- MODULE Spec2Model ----
(***************************************************************************)
(* Model of the Pandoc GUI server (server.js): the command builder, the    *)
(* engine probe, the single-file and the batch conversion endpoints, and   *)
(* the temporary files they create and delete.                             *)
(***************************************************************************)
EXTENDS Integers, Sequences, FiniteSets, TLC

(***************************************************************************)
(* Bounds of the model.                                                    *)
(***************************************************************************)
\* number of HTTP requests the server receives in one behaviour
MaxReq == 2
\* number of files uploaded in one behaviour, over all its requests
MaxFiles == 2
\* largest value of the millisecond clock read by Date.now()
MaxTime == 1

(***************************************************************************)
(* Formats: the catalogue of /api/formats, plus one name outside it (no    *)
(* validation is performed on the caller's strings).                       *)
(***************************************************************************)
InputFormats ==
  {"markdown", "html", "docx", "odt", "epub", "latex", "rst", "textile",
   "org", "mediawiki", "rtf", "json"}

OutputFormats ==
  {"markdown", "html", "docx", "odt", "epub", "pdf", "latex", "rst",
   "textile", "org", "mediawiki", "rtf", "plain", "json"}

UnknownFormat == "asciidoc"

\* the OptionSet after JSON.parse: a missing key reads as undefined (falsy)
OptionSets ==
  [toc : BOOLEAN, numberSections : BOOLEAN, css : BOOLEAN, bibliography : BOOLEAN]

DefaultOptions ==
  [toc |-> FALSE, numberSections |-> FALSE, css |-> FALSE, bibliography |-> FALSE]

(***************************************************************************)
(* buildPandocCommand: the command line as the list of its words, in the   *)
(* order the code appends them.                                            *)
(***************************************************************************)
StandaloneFormats_NoOdt == {"html", "docx", "epub", "pdf"}

StandaloneFormats == {"html", "docx", "odt", "epub", "pdf"}

TocFormats_WithMarkdown == {"html", "pdf", "docx", "epub", "markdown"}

TocFormats == {"html", "pdf", "docx", "epub"}

MediaFormats == {"docx", "odt", "epub"}

HtmlFlags_Always(options) ==
  <<"--self-contained", "--mathjax", "--css=style.css">>

HtmlFlags(options) ==
  <<"--self-contained", "--mathjax">>
    \o (IF options.css THEN <<"--css=style.css">> ELSE <<>>)

buildPandocCommand(inputPath, outputPath, fromFormat, toFormat, options) ==
  [input |-> inputPath, f |-> fromFormat, t |-> toFormat, o |-> outputPath,
   flags |->
     (IF toFormat \in StandaloneFormats THEN <<"--standalone">> ELSE <<>>)
     \o (IF options.toc /\ toFormat \in TocFormats
           THEN <<"--toc", "--toc-depth=6">> ELSE <<>>)
     \o (IF options.numberSections THEN <<"--number-sections">> ELSE <<>>)
     \o <<"--preserve-tabs">>
     \o (IF fromFormat \in MediaFormats
           THEN <<"--extract-media=./uploads/media">> ELSE <<>>)
     \o (IF toFormat = "html" THEN HtmlFlags(options) ELSE <<>>)
     \o (IF toFormat = "pdf"
           THEN <<"--pdf-engine=pdflatex", "--variable=geometry:margin=1in">>
           ELSE <<>>)
     \o (IF toFormat = "docx" THEN <<"--reference-doc=reference.docx">> ELSE <<>>)
     \o <<"--smart", "--highlight-style=pygments", "--wrap=preserve">>
     \o (IF options.bibliography THEN <<"--citeproc">> ELSE <<>>)]

\* the command line carries the flag
Has(c, word) == \E i \in 1..Len(c.flags) : c.flags[i] = word

(***************************************************************************)
(* getOutputExtension                                                      *)
(***************************************************************************)
getOutputExtension(format) ==
  CASE format = "markdown" -> ".md"
    [] format = "html" -> ".html"
    [] format = "docx" -> ".docx"
    [] format = "odt" -> ".odt"
    [] format = "epub" -> ".epub"
    [] format = "pdf" -> ".pdf"
    [] format = "latex" -> ".tex"
    [] format = "rst" -> ".rst"
    [] format = "textile" -> ".textile"
    [] format = "org" -> ".org"
    [] format = "mediawiki" -> ".wiki"
    [] format = "rtf" -> ".rtf"
    [] format = "plain" -> ".txt"
    [] format = "json" -> ".json"
    [] OTHER -> ".txt"

(***************************************************************************)
(* Files.  An original name is <<base, extension>>; a path on disk is the  *)
(* directory and the parts its file name is put together from.             *)
(***************************************************************************)
OriginalNames == {<<"a", ".md">>, <<"b", ".md">>}

\* path.parse(originalname).name
ParsedName(originalname) == originalname[1]

\* multer's filename: uploads/<Date.now()>-<originalname>
UploadPath(ts, originalname) ==
  [dir |-> "uploads", ts |-> ts, base |-> originalname[1], ext |-> originalname[2]]

\* downloads/<name>-<timestamp><extension>
OutputPath(name, ts, ext) ==
  [dir |-> "downloads", ts |-> ts, base |-> name, ext |-> ext]

\* downloads/converted-<timestamp>.zip
ZipPath(ts) ==
  [dir |-> "downloads", ts |-> ts, base |-> "converted", ext |-> ".zip"]

\* path.basename(outputPath)
Basename(p) == [ts |-> p.ts, base |-> p.base, ext |-> p.ext]

(***************************************************************************)
(* The options form field and JSON.parse.                                  *)
(***************************************************************************)
OptionFields == {"{\"toc\":true}", "{\"toc\""}

\* options ? JSON.parse(options) : {}
ParseOptions(field) ==
  CASE field = "" -> [ok |-> TRUE, value |-> DefaultOptions]
    [] field = "{\"toc\":true}" ->
         [ok |-> TRUE, value |-> [DefaultOptions EXCEPT !.toc = TRUE]]
    [] OTHER -> [ok |-> FALSE, value |-> DefaultOptions]

(***************************************************************************)
(* Responses and the external engine's outcomes.                           *)
(***************************************************************************)
NoPath == [dir |-> "", ts |-> 0, base |-> "", ext |-> ""]

\* res.status(status).json({ error: message })
JsonError(status, message) ==
  [status |-> status, type |-> "json", available |-> "", version |-> "",
   error |-> message, file |-> NoPath, filename |-> <<>>]

\* res.download(path, filename)
Download(path, filename) ==
  [status |-> 200, type |-> "download", available |-> "", version |-> "",
   error |-> <<>>, file |-> path, filename |-> filename]

\* what exec's callback receives: (error, stdout, stderr)
ExecOutcomes ==
  {[error |-> FALSE, stderr |-> ""],
   [error |-> TRUE, stderr |-> "pandoc: parse error"]}

ErrorMessage == "Command failed"

\* `Conversion failed: ${stderr || error.message}`
ConversionError(out) ==
  <<"Conversion failed: ", IF out.stderr # "" THEN out.stderr ELSE ErrorMessage>>

\* stdout of `pandoc --version`, line by line
VersionOutput == <<"pandoc 3.1.9", "Features: +server +lua">>

ProbeOutcomes ==
  {[error |-> FALSE, stdout |-> VersionOutput], [error |-> TRUE, stdout |-> <<>>]}

\* checkPandoc: resolves with stdout, rejects with a fixed message
checkPandoc(out) ==
  IF out.error
    THEN [ok |-> FALSE, value |-> <<"Pandoc is not installed or not in PATH">>]
    ELSE [ok |-> TRUE, value |-> out.stdout]

ProbeResponse_ErrorStatus(probe) ==
  IF probe.ok
    THEN [status |-> 200, type |-> "json", available |-> "true",
          version |-> Head(probe.value), error |-> <<>>, file |-> NoPath,
          filename |-> <<>>]
    ELSE [status |-> 500, type |-> "json", available |-> "false", version |-> "",
          error |-> probe.value, file |-> NoPath, filename |-> <<>>]

\* the two res.json calls of /api/check-pandoc
ProbeResponse(probe) ==
  IF probe.ok
    THEN [status |-> 200, type |-> "json", available |-> "true",
          version |-> Head(probe.value), error |-> <<>>, file |-> NoPath,
          filename |-> <<>>]
    ELSE [status |-> 200, type |-> "json", available |-> "false", version |-> "",
          error |-> probe.value, file |-> NoPath, filename |-> <<>>]

(***************************************************************************)
(* State.                                                                  *)
(***************************************************************************)
VARIABLES
  serverPc,   \* startServer: "probing" while it awaits checkPandoc, then "started"
  listening,  \* app.listen was called
  startupLog, \* what startServer printed about the engine
  crashed,    \* an exception escaped every handler: the process is gone
  now,        \* Date.now()
  disk,       \* the files in uploads/ and downloads/, each with the request
              \* that wrote it last
  req,        \* the requests, each with its handler's position and locals
  cmdPc,      \* command builder check: "args" or "built"
  cmdArgs,    \* command builder check: the arguments
  cmd,        \* command builder check: the command built
  cvPc,       \* one convertFile call: "idle", "running" (exec pending), "settled"
  cvArgs,     \* its arguments
  cvCmd,      \* the command it passed to exec
  cvOut,      \* what exec's callback received
  cvResult,   \* how its promise settled
  cvSettled,  \* how many times resolve or reject was called
  clMode,         \* browser: state.mode
  clFiles,        \* browser: state.files
  clInputFormat,  \* browser: state.inputFormat
  clOutputFormat, \* browser: state.outputFormat
  clDisabled,     \* browser: elements.convertBtn.disabled
  clPending,      \* browser: the convertFiles calls that have not returned
  clMessage       \* browser: the section shown, "none", "result" or "error"

convVars == <<cvPc, cvArgs, cvCmd, cvOut, cvResult, cvSettled>>

clientVars ==
  <<clMode, clFiles, clInputFormat, clOutputFormat, clDisabled, clPending, clMessage>>

vars ==
  <<serverPc, listening, startupLog, crashed, now, disk, req, cmdPc, cmdArgs, cmd,
    convVars, clientVars>>

serverVars == <<serverPc, listening, startupLog, crashed, now, disk, req>>

cmdVars == <<cmdPc, cmdArgs, cmd>>

Reqs == 1..MaxReq

Kinds == {"probe", "single", "batch"}

\* the formats the requests of the model ask for
FlowSources == {"markdown"}

FlowTargets == {"html"}

Bodies == [fromFormat : FlowSources, toFormat : FlowTargets, options : OptionFields]

NoBody == [fromFormat |-> "", toFormat |-> "", options |-> ""]

NoArchive == [state |-> "none", path |-> NoPath, entries |-> <<>>]

InitReq ==
  [pc |-> "idle", kind |-> "none", body |-> NoBody, files |-> <<>>,
   timestamp |-> 0, outputPath |-> NoPath, index |-> 0, conversions |-> <<>>,
   running |-> <<>>, attempts |-> <<>>, archive |-> NoArchive,
   responses |-> <<>>, downloadErr |-> FALSE, todo |-> <<>>, errors |-> {},
   probed |-> "no"]

NoCmdArgs ==
  [inputPath |-> NoPath, outputPath |-> NoPath, fromFormat |-> "",
   toFormat |-> "", options |-> DefaultOptions]

InitServer ==
  /\ serverPc = "probing"
  /\ listening = FALSE
  /\ startupLog = "none"
  /\ crashed = FALSE
  /\ now = 0
  /\ disk = {}
  /\ req = [r \in Reqs |-> InitReq]

NoCmd == buildPandocCommand(NoPath, NoPath, "", "", DefaultOptions)

\* no convertFile call under way
InitConvIdle ==
  /\ cvPc = "idle"
  /\ cvArgs = NoCmdArgs
  /\ cvCmd = NoCmd
  /\ cvOut = [error |-> FALSE, stderr |-> "", written |-> FALSE]
  /\ cvResult = [kind |-> "pending", value |-> NoPath, message |-> <<>>]
  /\ cvSettled = 0

\* the page as the script's top-level declarations leave it
InitClientIdle ==
  /\ clMode = "single"
  /\ clFiles = <<>>
  /\ clInputFormat = ""
  /\ clOutputFormat = ""
  /\ clDisabled = TRUE
  /\ clPending = <<>>
  /\ clMessage = "none"

Init ==
  /\ InitServer
  /\ cmdPc = "args"
  /\ cmdArgs = NoCmdArgs
  /\ cmd = buildPandocCommand(NoPath, NoPath, "", "", DefaultOptions)
  /\ InitConvIdle
  /\ InitClientIdle

(***************************************************************************)
(* The file system: one file per path.                                     *)
(***************************************************************************)
Exists(d, path) == \E e \in d : e.path = path

\* creating or overwriting the file at path
Write(d, path, owner) ==
  {e \in d : e.path # path} \cup {[path |-> path, owner |-> owner]}

\* fs.unlink of an existing file
Remove(d, path) == {e \in d : e.path # path}

(***************************************************************************)
(* startServer                                                             *)
(***************************************************************************)
\* app.listen follows the try/catch around checkPandoc
ListenAfterProbe(probe) == TRUE

StartServer(out) ==
  /\ serverPc = "probing"
  /\ serverPc' = "started"
  /\ startupLog' = IF checkPandoc(out).ok THEN "Pandoc detected" ELSE "WARNING"
  /\ listening' = ListenAfterProbe(checkPandoc(out))
  /\ UNCHANGED <<crashed, now, disk, req, cmdVars, convVars, clientVars>>

\* the millisecond clock advances
Tick ==
  /\ now < MaxTime
  /\ now' = now + 1
  /\ UNCHANGED <<serverPc, listening, startupLog, crashed, disk, req, cmdVars, convVars, clientVars>>

Serving == listening /\ ~crashed

(***************************************************************************)
(* A request arrives; multer stores its files before the handler runs.     *)
(***************************************************************************)
Arrive(r, kind, body) ==
  /\ Serving
  /\ req[r].pc = "idle"
  /\ \A s \in Reqs : s < r => req[s].pc # "idle"  \* requests are numbered as they arrive
  /\ req' = [req EXCEPT ![r] =
       [@ EXCEPT !.kind = kind,
                 !.body = IF kind = "probe" THEN NoBody ELSE body,
                 !.pc = IF kind = "probe" THEN "probe" ELSE "upload"]]
  /\ UNCHANGED <<serverPc, listening, startupLog, crashed, now, disk, cmdVars, convVars, clientVars>>

\* upload.array('files', 50)
MaxBatchFiles == 50

\* upload.single('file') / upload.array('files', 50)
FileLimit(kind) == IF kind = "single" THEN 1 ELSE MaxBatchFiles

RECURSIVE Uploaded(_)
Uploaded(n) == IF n = 0 THEN 0 ELSE Len(req[n].files) + Uploaded(n - 1)

Upload(r, originalname) ==
  /\ Serving
  /\ req[r].pc = "upload"
  /\ Len(req[r].files) < FileLimit(req[r].kind)
  /\ Uploaded(MaxReq) < MaxFiles
  /\ LET file == [originalname |-> originalname, path |-> UploadPath(now, originalname)]
     IN /\ disk' = Write(disk, file.path, r)
        /\ req' = [req EXCEPT ![r].files = Append(@, file)]
  /\ UNCHANGED <<serverPc, listening, startupLog, crashed, now, cmdVars, convVars, clientVars>>

(***************************************************************************)
(* convertFile and the steps of the two conversion handlers.               *)
(***************************************************************************)
\* convertFile up to exec: the engine runs on the command built
convertFile(q, inputPath, outputPath) ==
  [q EXCEPT
     !.running = Append(@, buildPandocCommand(inputPath, outputPath,
                    q.body.fromFormat, q.body.toFormat,
                    ParseOptions(q.body.options).value)),
     !.attempts = Append(@, inputPath),
     !.pc = "exec"]

\* the catch block of a handler: log, then res.status(500).json
Catch(q, label, message) ==
  [q EXCEPT !.errors = @ \cup {label},
            !.responses = Append(@, JsonError(500, message)),
            !.pc = "done"]

NoFile_Never(files) == FALSE

\* !req.file  /  !req.files || req.files.length === 0
NoFile(files) == Len(files) = 0

\* the output path of the batch's file, from the shared timestamp
BatchOutputPath(q, file) ==
  OutputPath(ParsedName(file.originalname), q.timestamp,
             getOutputExtension(q.body.toFormat))

SuccessRecord(file, outputPath) ==
  [original |-> file.originalname, converted |-> Basename(outputPath),
   path |-> outputPath, error |-> <<>>, success |-> TRUE]

FailureRecord(file, message) ==
  [original |-> file.originalname, converted |-> Basename(NoPath),
   path |-> NoPath, error |-> message, success |-> FALSE]

PushFailure_Dropped(conversions, file, message) == conversions

\* the catch inside the loop: conversions.push({ ..., success: false })
PushFailure(conversions, file, message) ==
  Append(conversions, FailureRecord(file, message))

RECURSIVE ArchiveEntries_All(_)
ArchiveEntries_All(conversions) ==
  IF conversions = <<>> THEN <<>>
  ELSE <<[path |-> Head(conversions).path, name |-> Head(conversions).converted]>>
         \o ArchiveEntries_All(Tail(conversions))

\* archive.file(conv.path, { name: conv.converted }) for the successful ones
RECURSIVE ArchiveEntries(_)
ArchiveEntries(conversions) ==
  IF conversions = <<>> THEN <<>>
  ELSE (IF Head(conversions).success /\ Head(conversions).path # NoPath
          THEN <<[path |-> Head(conversions).path,
                  name |-> Head(conversions).converted]>>
          ELSE <<>>)
         \o ArchiveEntries(Tail(conversions))

\* the write stream and the archive are set up; finalize is awaited
CreateZip(q) ==
  [q EXCEPT !.archive = [state |-> "open", path |-> ZipPath(q.timestamp),
                         entries |-> ArchiveEntries(q.conversions)],
            !.pc = "archiving"]

RECURSIVE StartAll(_)
StartAll(q) ==
  IF q.index < Len(q.files)
    THEN LET file == q.files[q.index + 1]
         IN StartAll(convertFile([q EXCEPT !.index = @ + 1], file.path,
                                 BatchOutputPath(q, file)))
    ELSE q

BatchNext_NoAwait(q) ==
  IF q.index < Len(q.files) THEN StartAll(q) ELSE CreateZip(q)

\* the for loop over req.files: the next file, or the archive after the last
BatchNext(q) ==
  IF q.index < Len(q.files)
    THEN LET file == q.files[q.index + 1]
         IN convertFile([q EXCEPT !.index = @ + 1], file.path,
                        BatchOutputPath(q, file))
    ELSE CreateZip(q)

\* app.post('/api/convert') from its start to the first await
ConvertStart(q) ==
  IF NoFile(q.files)
    THEN [q EXCEPT !.responses = Append(@, JsonError(400, <<"No file uploaded">>)),
                   !.pc = "done"]
  ELSE IF ~ParseOptions(q.body.options).ok
    THEN Catch(q, "Conversion error", <<"SyntaxError">>)
  ELSE IF Len(q.files) = 0
    THEN Catch(q, "Conversion error", <<"TypeError">>)
  ELSE LET outputPath ==
             OutputPath(ParsedName(q.files[1].originalname), now,
                        getOutputExtension(q.body.toFormat))
       IN convertFile([q EXCEPT !.outputPath = outputPath],
                      q.files[1].path, outputPath)

\* app.post('/api/convert-batch') from its start to the first await
BatchStart(q) ==
  IF NoFile(q.files)
    THEN [q EXCEPT !.responses = Append(@, JsonError(400, <<"No files uploaded">>)),
                   !.pc = "done"]
  ELSE IF ~ParseOptions(q.body.options).ok
    THEN Catch(q, "Batch conversion error", <<"SyntaxError">>)
  ELSE BatchNext([q EXCEPT !.timestamp = now])

Handle(r) ==
  /\ Serving
  /\ req[r].pc = "upload"
  /\ req' = [req EXCEPT ![r] =
       IF @.kind = "single" THEN ConvertStart(@) ELSE BatchStart(@)]
  /\ disk' = IF req'[r].archive.state = "open"
               THEN Write(disk, req'[r].archive.path, r) ELSE disk
  /\ UNCHANGED <<serverPc, listening, startupLog, crashed, now, cmdVars, convVars, clientVars>>

ConvertResume_CleanupInline(q, out) ==
  IF out.error
    THEN Catch([q EXCEPT !.running = <<>>, !.errors = @ \cup {"Pandoc error"}],
               "Conversion error", ConversionError(out))
    ELSE [q EXCEPT !.running = <<>>,
                   !.responses = Append(@,
                      Download(q.outputPath,
                               <<ParsedName(q.files[1].originalname),
                                 getOutputExtension(q.body.toFormat)>>)),
                   !.todo = <<q.files[1].path, q.outputPath>>,
                   !.pc = "cleanup"]

\* exec's callback in convertFile, and the handler's continuation after the await
ConvertResume(q, out) ==
  IF out.error
    THEN Catch([q EXCEPT !.running = <<>>, !.errors = @ \cup {"Pandoc error"}],
               "Conversion error", ConversionError(out))
    ELSE [q EXCEPT !.running = <<>>,
                   !.responses = Append(@,
                      Download(q.outputPath,
                               <<ParsedName(q.files[1].originalname),
                                 getOutputExtension(q.body.toFormat)>>)),
                   !.pc = "streaming"]

BatchResume(q, out) ==
  LET file == q.files[q.index]
  IN IF out.error
       THEN BatchNext([q EXCEPT
              !.running = <<>>,
              !.errors = @ \cup {"Pandoc error"},
              !.conversions = PushFailure(@, file, ConversionError(out))])
       ELSE BatchNext([q EXCEPT
              !.running = <<>>,
              !.conversions = Append(@, SuccessRecord(file, BatchOutputPath(q, file)))])

ExecExit(r, out) ==
  /\ Serving
  /\ req[r].pc = "exec"
  /\ req' = [req EXCEPT ![r] =
       IF @.kind = "single" THEN ConvertResume(@, out) ELSE BatchResume(@, out)]
  /\ LET written == IF out.error THEN disk ELSE Write(disk, req[r].running[1].o, r)
     IN disk' = IF req'[r].archive.state = "open"
                  THEN Write(written, req'[r].archive.path, r) ELSE written
  /\ UNCHANGED <<serverPc, listening, startupLog, crashed, now, cmdVars, convVars, clientVars>>

(***************************************************************************)
(* The archive of a batch.                                                 *)
(***************************************************************************)
\* output.on('close'): the archive is written, res.download sends it
ArchiveClose(r) ==
  /\ Serving
  /\ req[r].pc = "archiving"
  /\ req' = [req EXCEPT ![r] =
       [@ EXCEPT !.archive.state = "closed",
                 !.responses = Append(@, Download(req[r].archive.path,
                                   <<"converted-documents", ".zip">>)),
                 !.pc = "streaming"]]
  /\ UNCHANGED <<serverPc, listening, startupLog, crashed, now, disk, cmdVars, convVars, clientVars>>

\* the archive fails and the rejection of archive.finalize() reaches the catch
ArchiveErrorCaught(r) ==
  /\ Serving
  /\ req[r].pc = "archiving"
  /\ req' = [req EXCEPT ![r] =
       Catch([@ EXCEPT !.archive.state = "error"],
             "Batch conversion error", <<"ArchiverError">>)]
  /\ UNCHANGED <<serverPc, listening, startupLog, crashed, now, disk, cmdVars, convVars, clientVars>>

\* the archive fails and archive.on('error') rethrows from the emitter's stack:
\* no try block encloses it, the exception ends the process
ArchiveErrorThrown(r) ==
  /\ Serving
  /\ req[r].pc = "archiving"
  /\ req' = [req EXCEPT ![r] = [@ EXCEPT !.archive.state = "error", !.pc = "aborted"]]
  /\ crashed' = TRUE
  /\ UNCHANGED <<serverPc, listening, startupLog, now, disk, cmdVars, convVars, clientVars>>

(***************************************************************************)
(* The download callback and its cleanup.                                  *)
(***************************************************************************)
RECURSIVE FilePaths(_)
FilePaths(files) ==
  IF files = <<>> THEN <<>> ELSE <<Head(files).path>> \o FilePaths(Tail(files))

RECURSIVE SuccessPaths(_)
SuccessPaths(conversions) ==
  IF conversions = <<>> THEN <<>>
  ELSE (IF Head(conversions).success /\ Head(conversions).path # NoPath
          THEN <<Head(conversions).path>> ELSE <<>>)
         \o SuccessPaths(Tail(conversions))

\* the paths the callback unlinks, in the order it unlinks them
CleanupList(q) ==
  IF q.kind = "single"
    THEN <<q.files[1].path, q.outputPath>>
    ELSE FilePaths(q.files) \o SuccessPaths(q.conversions) \o <<q.archive.path>>

\* the end of the callback: if (err) console.error('Download error:', err)
CleanupEnd(q) ==
  [q EXCEPT !.todo = <<>>,
            !.errors = IF q.downloadErr THEN @ \cup {"Download error"} ELSE @,
            !.pc = "done"]

\* res.download calls back, with an error when streaming failed
DownloadEnd(r, err) ==
  /\ Serving
  /\ req[r].pc = "streaming"
  /\ req' = [req EXCEPT ![r] =
       [@ EXCEPT !.downloadErr = err, !.todo = CleanupList(req[r]),
                 !.pc = "cleanup"]]
  /\ UNCHANGED <<serverPc, listening, startupLog, crashed, now, disk, cmdVars, convVars, clientVars>>

\* one await fs.unlink of the cleanup; a missing file throws into the catch,
\* which logs and skips the unlinks that remain
Unlink(r) ==
  /\ Serving
  /\ req[r].pc = "cleanup"
  /\ LET q == req[r]
         path == Head(q.todo)
     IN IF Exists(disk, path)
          THEN /\ disk' = Remove(disk, path)
               /\ req' = [req EXCEPT ![r] =
                    IF Tail(q.todo) = <<>> THEN CleanupEnd(q)
                    ELSE [q EXCEPT !.todo = Tail(@)]]
          ELSE /\ disk' = disk
               /\ req' = [req EXCEPT ![r] =
                    CleanupEnd([q EXCEPT !.errors = @ \cup {"Cleanup error"}])]
  /\ UNCHANGED <<serverPc, listening, startupLog, crashed, now, cmdVars, convVars, clientVars>>

(***************************************************************************)
(* GET /api/check-pandoc                                                   *)
(***************************************************************************)
ProbeExit(r, out) ==
  /\ Serving
  /\ req[r].pc = "probe"
  /\ req' = [req EXCEPT ![r] =
       [@ EXCEPT !.responses = Append(@, ProbeResponse(checkPandoc(out))),
                 !.probed = IF out.error THEN "failed" ELSE "succeeded",
                 !.pc = "done"]]
  /\ UNCHANGED <<serverPc, listening, startupLog, crashed, now, disk, cmdVars, convVars, clientVars>>

Next ==
  \/ \E out \in ProbeOutcomes : StartServer(out) \/ (\E r \in Reqs : ProbeExit(r, out))
  \/ Tick
  \/ \E r \in Reqs, kind \in Kinds, body \in Bodies : Arrive(r, kind, body)
  \/ \E r \in Reqs, originalname \in OriginalNames : Upload(r, originalname)
  \/ \E r \in Reqs : Handle(r)
  \/ \E r \in Reqs, out \in ExecOutcomes : ExecExit(r, out)
  \/ \E r \in Reqs : ArchiveClose(r) \/ ArchiveErrorCaught(r) \/ ArchiveErrorThrown(r)
  \/ \E r \in Reqs, err \in BOOLEAN : DownloadEnd(r, err)
  \/ \E r \in Reqs : Unlink(r)

Spec == Init /\ [][Next]_vars

(***************************************************************************)
(* The command builder on its own: every (source, target, options).        *)
(***************************************************************************)
CmdInputs ==
  [inputPath : {UploadPath(0, <<"a", ".md">>)},
   outputPath : {OutputPath("a", 0, ".out")},
   fromFormat : InputFormats \cup {UnknownFormat},
   toFormat : OutputFormats \cup {UnknownFormat},
   options : OptionSets]

InitCmd ==
  /\ InitServer
  /\ InitConvIdle
  /\ InitClientIdle
  /\ cmdPc = "args"
  /\ cmdArgs \in CmdInputs
  /\ cmd = buildPandocCommand(NoPath, NoPath, "", "", DefaultOptions)

BuildCmd ==
  /\ cmdPc = "args"
  /\ cmdPc' = "built"
  /\ cmd' = buildPandocCommand(cmdArgs.inputPath, cmdArgs.outputPath,
                               cmdArgs.fromFormat, cmdArgs.toFormat, cmdArgs.options)
  /\ UNCHANGED <<cmdArgs, serverVars, convVars, clientVars>>

NextCmd == BuildCmd

SpecCmd == InitCmd /\ [][NextCmd]_vars

(***************************************************************************)
(* Properties of the command builder (checked under SpecCmd).              *)
(***************************************************************************)
\* C1: the command carries --standalone exactly when the target format is one
\* of html, docx, odt, epub, pdf, whatever the source format and the options.
C1_StandaloneIffTarget ==
  cmdPc = "built" =>
    (Has(cmd, "--standalone")
       <=> cmdArgs.toFormat \in {"html", "docx", "odt", "epub", "pdf"})

C1_Witness ==
  /\ cmdPc = "built"
  /\ cmdArgs.toFormat = "odt"
  /\ cmdArgs.fromFormat = "docx"
  /\ cmdArgs.options.numberSections
  /\ Has(cmd, "--standalone")

\* C2: the command carries --toc and --toc-depth=6 exactly when options.toc is
\* set and the target is one of html, pdf, docx, epub; never for another target.
C2_TocIffOptionAndTarget ==
  cmdPc = "built" =>
    /\ Has(cmd, "--toc")
         <=> (cmdArgs.options.toc /\ cmdArgs.toFormat \in {"html", "pdf", "docx", "epub"})
    /\ Has(cmd, "--toc-depth=6") <=> Has(cmd, "--toc")

C2_Witness ==
  /\ cmdPc = "built"
  /\ cmdArgs.options.toc
  /\ cmdArgs.toFormat = "markdown"
  /\ ~Has(cmd, "--toc")

\* C3: the target-specific flags appear exactly for their target: self-contained
\* and mathjax iff html, the stylesheet iff html and options.css, the PDF engine
\* and the 1-inch margin iff pdf, the reference document iff docx.
C3_TargetSpecificFlags ==
  cmdPc = "built" =>
    /\ Has(cmd, "--self-contained") <=> cmdArgs.toFormat = "html"
    /\ Has(cmd, "--mathjax") <=> cmdArgs.toFormat = "html"
    /\ Has(cmd, "--css=style.css") <=> (cmdArgs.toFormat = "html" /\ cmdArgs.options.css)
    /\ Has(cmd, "--pdf-engine=pdflatex") <=> cmdArgs.toFormat = "pdf"
    /\ Has(cmd, "--variable=geometry:margin=1in") <=> cmdArgs.toFormat = "pdf"
    /\ Has(cmd, "--reference-doc=reference.docx") <=> cmdArgs.toFormat = "docx"

C3_Witness ==
  /\ cmdPc = "built"
  /\ cmdArgs.toFormat = "html"
  /\ ~cmdArgs.options.css
  /\ Has(cmd, "--self-contained")
  /\ ~Has(cmd, "--css=style.css")

(***************************************************************************)
(* Properties of the endpoints (checked under Spec).                       *)
(***************************************************************************)
Convert(r) == req[r].kind \in {"single", "batch"}

\* the number of successful conversions recorded
Successes(conversions) ==
  Cardinality({i \in 1..Len(conversions) : conversions[i].success})

\* the request has started a download
Downloading(r) ==
  \E i \in 1..Len(req[r].responses) : req[r].responses[i].type = "download"

\* the handler has got past the empty-upload check and the options field
Accepted(r) ==
  /\ Convert(r)
  /\ req[r].pc \notin {"idle", "upload"}
  /\ Len(req[r].files) >= 1
  /\ ParseOptions(req[r].body.options).ok

\* C4: a batch of N >= 1 files of which K convert (its options parse, its
\* archive is written) yields an archive of exactly K entries, one per
\* successful file in order, and is answered by the download of that archive
\* with status 200, also when K = 0.
C4_ArchiveHasKEntries ==
  \A r \in Reqs :
    (req[r].kind = "batch" /\ Accepted(r)
       /\ req[r].pc \in {"streaming", "cleanup", "done"}
       /\ req[r].archive.state # "error") =>
      LET q == req[r]
          succ == {i \in 1..Len(q.conversions) : q.conversions[i].success}
      IN /\ Len(q.conversions) = Len(q.files)
         /\ q.archive.state = "closed"
         /\ Len(q.archive.entries) = Successes(q.conversions)
         /\ \A i \in succ :
              \E j \in 1..Len(q.archive.entries) :
                /\ q.archive.entries[j].path = q.conversions[i].path
                /\ j = Cardinality({k \in succ : k <= i})
         /\ q.responses = <<Download(ZipPath(q.timestamp),
                                     <<"converted-documents", ".zip">>)>>
         /\ q.responses[1].status = 200

C4_Witness ==
  \E r \in Reqs :
    /\ req[r].kind = "batch"
    /\ req[r].pc = "done"
    /\ Len(req[r].files) = 2
    /\ Len(req[r].conversions) = 2
    /\ Successes(req[r].conversions) = 0
    /\ req[r].archive.state = "closed"
    /\ req[r].archive.entries = <<>>
    /\ Downloading(r)

\* the temporary files on disk that the request wrote: its uploads, the
\* outputs of its engine runs, its archive
OwnFiles(r) == {e \in disk : e.owner = r}

\* C5: once a single-file request has finished (converted, engine failure,
\* unparsable options, failed download), none of its files is on disk.
C5_SingleLeavesNoFile ==
  \A r \in Reqs :
    (req[r].kind = "single" /\ req[r].pc = "done") => OwnFiles(r) = {}

\* C6: once a batch request has streamed its archive and finished, its uploads,
\* its outputs and its archive are all deleted.
C6_BatchLeavesNoFile ==
  \A r \in Reqs :
    (req[r].kind = "batch" /\ req[r].pc = "done" /\ req[r].archive.state = "closed")
      => OwnFiles(r) = {}

\* C7: in a batch every uploaded file is attempted exactly once, in upload
\* order, and gets exactly one result record, in the same order; a failed
\* conversion does not end the loop.
C7_OneRecordPerFileInOrder ==
  \A r \in Reqs :
    req[r].kind = "batch" =>
      LET q == req[r]
      IN /\ Len(q.attempts) <= Len(q.files)
         /\ \A i \in 1..Len(q.attempts) : q.attempts[i] = q.files[i].path
         /\ Len(q.conversions) = Len(q.attempts) - Len(q.running)
         /\ \A i \in 1..Len(q.conversions) :
              q.conversions[i].original = q.files[i].originalname
         /\ (Accepted(r) /\ q.pc # "exec") =>
              /\ Len(q.attempts) = Len(q.files)
              /\ Len(q.conversions) = Len(q.files)

C7_Witness ==
  \E r \in Reqs :
    /\ req[r].kind = "batch"
    /\ req[r].pc = "done"
    /\ Len(req[r].files) = 2
    /\ Len(req[r].conversions) = 2
    /\ ~req[r].conversions[1].success
    /\ req[r].conversions[2].success
    /\ Len(req[r].attempts) = 2

\* C8: a conversion request without files is answered 400 with a JSON error
\* before anything else: no engine run, no output path, no archive.
C8_NoFileRejected ==
  \A r \in Reqs :
    (Convert(r) /\ Len(req[r].files) = 0 /\ req[r].pc \notin {"idle", "upload"}) =>
      /\ req[r].pc = "done"
      /\ Len(req[r].responses) = 1
      /\ req[r].responses[1].status = 400
      /\ req[r].responses[1].type = "json"
      /\ req[r].responses[1].error # <<>>
      /\ req[r].attempts = <<>>
      /\ req[r].running = <<>>
      /\ req[r].outputPath = NoPath
      /\ req[r].archive = NoArchive
      /\ req[r].errors = {}

C8_Witness ==
  \E r, s \in Reqs :
    /\ req[r].kind = "single" /\ req[r].pc = "done" /\ req[r].files = <<>>
    /\ req[s].kind = "batch" /\ req[s].pc = "done" /\ req[s].files = <<>>
    /\ req[r].responses[1].status = 400
    /\ req[s].responses[1].status = 400

\* C9: a conversion request that ends without having started a download got
\* exactly one response, with a 4xx/5xx status and a JSON error body; and a
\* single-file request whose engine run failed ends there, with no download.
C9_FailureGetsJsonError ==
  \A r \in Reqs :
    /\ (Convert(r) /\ req[r].pc \in {"done", "aborted"} /\ ~Downloading(r)) =>
         /\ Len(req[r].responses) = 1
         /\ req[r].responses[1].status >= 400
         /\ req[r].responses[1].status <= 599
         /\ req[r].responses[1].type = "json"
         /\ req[r].responses[1].error # <<>>
    /\ (req[r].kind = "single" /\ "Pandoc error" \in req[r].errors) =>
         /\ req[r].pc = "done"
         /\ ~Downloading(r)

\* C10: the probe answers 200 with JSON: available true and the version's first
\* line exactly when the version command succeeded, available false and a
\* message exactly when it failed; and startServer listens after its own probe,
\* whatever the probe found.
C10_ProbeNeverFails ==
  /\ serverPc = "started" => listening
  /\ \A r \in Reqs :
       (req[r].kind = "probe" /\ req[r].pc = "done") =>
         /\ Len(req[r].responses) = 1
         /\ req[r].responses[1].status = 200
         /\ req[r].responses[1].type = "json"
         /\ req[r].responses[1].available = "true" <=> req[r].probed = "succeeded"
         /\ req[r].responses[1].available = "false" <=> req[r].probed = "failed"
         /\ req[r].probed = "succeeded" =>
              /\ req[r].responses[1].version = VersionOutput[1]
              /\ req[r].responses[1].error = <<>>
         /\ req[r].probed = "failed" => req[r].responses[1].error # <<>>

C10_Witness ==
  /\ startupLog = "WARNING"
  /\ listening
  /\ \E r \in Reqs :
       /\ req[r].kind = "probe"
       /\ req[r].pc = "done"
       /\ req[r].probed = "failed"
       /\ req[r].responses[1].available = "false"

\* C11: the engine runs of one batch never overlap: at most one is running,
\* it is the run for the file the loop is at, and every earlier file already
\* has its result record (its run has exited).
C11_SequentialEngineRuns ==
  \A r \in Reqs :
    req[r].kind = "batch" =>
      LET q == req[r]
      IN /\ Len(q.running) <= 1
         /\ Len(q.running) = 1 =>
              /\ q.pc = "exec"
              /\ q.running[1].input = q.files[q.index].path
              /\ Len(q.attempts) = q.index
              /\ Len(q.conversions) = q.index - 1
         /\ q.pc = "exec" => Len(q.running) = 1

C11_Witness ==
  \E r \in Reqs :
    /\ req[r].kind = "batch"
    /\ req[r].pc = "exec"
    /\ Len(req[r].files) = 2
    /\ req[r].index = 2
    /\ Len(req[r].running) = 1
    /\ Len(req[r].conversions) = 1

\* the conversions started so far, each with the upload it reads and the
\* output it writes
ConversionsOf(r) ==
  {[req |-> r, i |-> i, input |-> req[r].attempts[i],
    output |-> IF req[r].kind = "single" THEN req[r].outputPath
               ELSE BatchOutputPath(req[r], req[r].files[i])] :
     i \in 1..Len(req[r].attempts)}

AllConversions == UNION {ConversionsOf(r) : r \in Reqs}

\* C12: two distinct conversions, of one batch or of two requests, never have
\* the same stored upload path nor the same output path.
C12_NoSharedTempFile ==
  \A c, d \in AllConversions :
    (c.req # d.req \/ c.i # d.i) =>
      /\ c.input # d.input
      /\ c.output # d.output

(***************************************************************************)
(* convertFile on its own: one call, every outcome of the engine.          *)
(***************************************************************************)
\* (error, stdout, stderr) of exec, and whether the engine wrote the output
ConvOutcomes ==
  [error : BOOLEAN, stderr : {"", "pandoc: parse error"}, written : BOOLEAN]

ConvInputs ==
  [inputPath : {UploadPath(0, <<"a", ".md">>)},
   outputPath : {OutputPath("a", 0, ".out")},
   fromFormat : {"markdown", "docx"},
   toFormat : OutputFormats,
   options : {DefaultOptions, [DefaultOptions EXCEPT !.toc = TRUE]}]

Settle_StderrOnly(outputPath, out) ==
  IF out.error
    THEN [kind |-> "reject", value |-> NoPath,
          message |-> <<"Conversion failed: ", out.stderr>>]
    ELSE [kind |-> "resolve", value |-> outputPath, message |-> <<>>]

\* exec's callback: reject(new Error(...)) on error, else resolve(outputPath)
Settle(outputPath, out) ==
  IF out.error
    THEN [kind |-> "reject", value |-> NoPath, message |-> ConversionError(out)]
    ELSE [kind |-> "resolve", value |-> outputPath, message |-> <<>>]

InitConv ==
  /\ InitServer
  /\ cmdPc = "args"
  /\ cmdArgs = NoCmdArgs
  /\ cmd = NoCmd
  /\ InitClientIdle
  /\ cvPc = "idle"
  /\ cvArgs \in ConvInputs
  /\ cvCmd = NoCmd
  /\ cvOut = [error |-> FALSE, stderr |-> "", written |-> FALSE]
  /\ cvResult = [kind |-> "pending", value |-> NoPath, message |-> <<>>]
  /\ cvSettled = 0

\* convertFile is called: the command is built and handed to exec
ConvCall ==
  /\ cvPc = "idle"
  /\ cvPc' = "running"
  /\ cvCmd' = buildPandocCommand(cvArgs.inputPath, cvArgs.outputPath,
                                 cvArgs.fromFormat, cvArgs.toFormat, cvArgs.options)
  /\ UNCHANGED <<cvArgs, cvOut, cvResult, cvSettled, serverVars, cmdVars, clientVars>>

\* the engine exits and exec calls back, once
ConvExit(out) ==
  /\ cvPc = "running"
  /\ cvPc' = "settled"
  /\ cvOut' = out
  /\ cvResult' = Settle(cvArgs.outputPath, out)
  /\ cvSettled' = cvSettled + 1
  /\ UNCHANGED <<cvArgs, cvCmd, serverVars, cmdVars, clientVars>>

NextConv == ConvCall \/ (\E out \in ConvOutcomes : ConvExit(out))

SpecConv == InitConv /\ [][NextConv]_vars

\* C13: a convertFile call settles exactly once: it resolves with its output
\* path exactly when exec reports no error, whether or not the output file was
\* written; otherwise it rejects with "Conversion failed: " followed by stderr
\* when that is non-empty and by the error's own message when it is empty.
C13_SettlesOnce ==
  /\ cvPc # "settled" => (cvSettled = 0 /\ cvResult.kind = "pending")
  /\ cvPc = "settled" =>
       /\ cvSettled = 1
       /\ cvResult.kind \in {"resolve", "reject"}
       /\ cvResult.kind = "resolve" <=> ~cvOut.error
       /\ cvResult.kind = "resolve" =>
            /\ cvResult.value = cvArgs.outputPath
            /\ cvCmd.o = cvArgs.outputPath
       /\ cvResult.kind = "reject" =>
            cvResult.message =
              <<"Conversion failed: ",
                IF cvOut.stderr = "" THEN "Command failed" ELSE cvOut.stderr>>

C13_Witness ==
  /\ cvPc = "settled"
  /\ cvOut.error
  /\ cvOut.stderr = ""
  /\ cvResult.kind = "reject"
  /\ cvResult.message = <<"Conversion failed: ", "Command failed">>

\* what a step may do to the cleanup of request r
CleanupStep(r) ==
  /\ (req'[r].pc = "cleanup" /\ req[r].pc # "cleanup") => req[r].pc = "streaming"
  /\ (req[r].pc = "streaming" /\ req'[r].pc # "streaming") =>
       /\ req'[r].pc = "cleanup"
       /\ req'[r].todo = CleanupList(req[r])
       /\ req'[r].todo # <<>>
  /\ req'[r].todo # req[r].todo => (req[r].pc = "cleanup" \/ req'[r].pc = "cleanup")
  /\ Downloading(r) => req'[r].responses = req[r].responses

\* a file leaves the disk only as the next unlink of some request's cleanup
DeletedByCleanup ==
  \A e \in disk :
    ~Exists(disk', e.path) =>
      \E r \in Reqs : req[r].pc = "cleanup" /\ Head(req[r].todo) = e.path

\* C14: once a download was started, the cleanup begins only when res.download
\* calls back (never while streaming), it begins then whether or not the
\* download failed, and a failing unlink is only logged: the response sent
\* stays the only one.
C14_CleanupAfterStreaming ==
  /\ [](\A r \in Reqs :
          /\ req[r].pc = "streaming" =>
               (req[r].todo = <<>> /\ "Cleanup error" \notin req[r].errors)
          /\ "Cleanup error" \in req[r].errors =>
               /\ req[r].pc = "done"
               /\ Len(req[r].responses) = 1
               /\ req[r].responses[1].type = "download"
               /\ req[r].responses[1].status = 200)
  /\ [][DeletedByCleanup /\ \A r \in Reqs : CleanupStep(r)]_vars

C14_Witness ==
  \E r \in Reqs :
    /\ req[r].pc = "done"
    /\ req[r].downloadErr
    /\ "Cleanup error" \in req[r].errors
    /\ "Download error" \in req[r].errors
    /\ Len(req[r].responses) = 1
    /\ Downloading(r)

\* the request can take no further step: its handler has ended, or the
\* process is gone
Ended(r) == req[r].pc \in {"done", "aborted"} \/ (crashed /\ req[r].pc # "idle")

\* C15: every conversion request gets exactly one response: never a second
\* one, and one at the latest when nothing more can happen for it (its engine
\* runs having exited).
C15_ExactlyOneResponse ==
  \A r \in Reqs :
    Convert(r) =>
      /\ Len(req[r].responses) <= 1
      /\ (Ended(r) /\ req[r].running = <<>>) => Len(req[r].responses) = 1

(***************************************************************************)
(* The browser client: the page's state, its event handlers and the        *)
(* convertFiles calls that have not returned yet.                          *)
(***************************************************************************)
\* largest number of files selected on the page
MaxClientFiles == 2
\* largest number of convertFiles calls followed at the same time
MaxPending == 2

ClientNames == {"a.md", "b.md"}

ClientInputFormats == {"markdown"}

ClientOutputFormats == {"html", "pdf"}

RECURSIVE SeqsUpTo(_, _)
SeqsUpTo(S, n) ==
  IF n = 0 THEN {<<>>}
  ELSE SeqsUpTo(S, n - 1)
         \cup {Append(q, x) : q \in {t \in SeqsUpTo(S, n - 1) : Len(t) = n - 1}, x \in S}

\* updateConvertButton: the value it gives elements.convertBtn.disabled
updateConvertButton(files, outputFormat) ==
  ~(Len(files) > 0 /\ outputFormat # "")

\* the page after init(): loadFormats set 'html', or failed and left ''
InitClient ==
  /\ InitServer
  /\ cmdPc = "args"
  /\ cmdArgs = NoCmdArgs
  /\ cmd = NoCmd
  /\ InitConvIdle
  /\ clMode = "single"
  /\ clFiles = <<>>
  /\ clInputFormat = ""
  /\ clOutputFormat \in {"html", ""}
  /\ clDisabled = updateConvertButton(clFiles, clOutputFormat)
  /\ clPending = <<>>
  /\ clMessage = "none"

notClient == <<serverVars, cmdVars, convVars>>

\* a .mode-btn is clicked: state.mode = ...; clearFiles()
ModeClick(mode) ==
  /\ clMode' = mode
  /\ clFiles' = <<>>
  /\ clDisabled' = updateConvertButton(clFiles', clOutputFormat)
  /\ UNCHANGED <<clInputFormat, clOutputFormat, clPending, clMessage, notClient>>

\* files.slice(0, 1)
FirstOnly(files) == IF files = <<>> THEN <<>> ELSE <<files[1]>>

\* handleFiles, from a file input's change event or a drop
HandleFiles(files) ==
  /\ clFiles' = IF clMode = "single" THEN FirstOnly(files) ELSE clFiles \o files
  /\ Len(clFiles') <= MaxClientFiles
  /\ clDisabled' = updateConvertButton(clFiles', clOutputFormat)
  /\ UNCHANGED <<clMode, clInputFormat, clOutputFormat, clPending, clMessage, notClient>>

\* removeFile(index): state.files.splice(index, 1)
RemoveFile(index) ==
  /\ index \in 1..Len(clFiles)
  /\ clFiles' = SubSeq(clFiles, 1, index - 1) \o SubSeq(clFiles, index + 1, Len(clFiles))
  /\ clDisabled' = updateConvertButton(clFiles', clOutputFormat)
  /\ UNCHANGED <<clMode, clInputFormat, clOutputFormat, clPending, clMessage, notClient>>

\* change on the input format select
InputFormatChange(value) ==
  /\ clInputFormat' = value
  /\ clDisabled' = updateConvertButton(clFiles, clOutputFormat)
  /\ UNCHANGED <<clMode, clFiles, clOutputFormat, clPending, clMessage, notClient>>

\* change on the output format select
OutputFormatChange(value) ==
  /\ clOutputFormat' = value
  /\ clDisabled' = updateConvertButton(clFiles, clOutputFormat')
  /\ UNCHANGED <<clMode, clFiles, clInputFormat, clPending, clMessage, notClient>>

\* click on the convert button (a disabled button gets no click):
\* convertFiles up to the await of fetch
ClickConvert ==
  /\ ~clDisabled
  /\ Len(clPending) < MaxPending
  /\ clMessage' = "none"
  /\ clDisabled' = TRUE
  /\ clPending' = Append(clPending, [mode |-> clMode, stage |-> "fetch", ok |-> FALSE])
  /\ UNCHANGED <<clMode, clFiles, clInputFormat, clOutputFormat, notClient>>

Without(pending, i) == SubSeq(pending, 1, i - 1) \o SubSeq(pending, i + 1, Len(pending))

\* the catch or the success branch of convertFiles, then its finally
Return(i, succeeded) ==
  /\ clMessage' = IF succeeded THEN "result" ELSE "error"
  /\ clDisabled' = FALSE
  /\ clPending' = Without(clPending, i)
  /\ UNCHANGED <<clMode, clFiles, clInputFormat, clOutputFormat, notClient>>

\* fetch resolves with a response: response.blob() or response.json() is awaited
Respond(i, ok) ==
  /\ i \in 1..Len(clPending)
  /\ clPending[i].stage = "fetch"
  /\ clPending' = [clPending EXCEPT ![i] = [@ EXCEPT !.stage = "body", !.ok = ok]]
  /\ UNCHANGED <<clMode, clFiles, clInputFormat, clOutputFormat, clDisabled,
                 clMessage, notClient>>

\* fetch rejects (no connection)
FetchFails(i) ==
  /\ i \in 1..Len(clPending)
  /\ clPending[i].stage = "fetch"
  /\ Return(i, FALSE)

\* the body is read: the download is triggered, or the error is thrown;
\* state.files[0].name throws when the file was removed meanwhile
Finish(i) ==
  /\ i \in 1..Len(clPending)
  /\ clPending[i].stage = "body"
  /\ Return(i, /\ clPending[i].ok
               /\ (clPending[i].mode = "single" => Len(clFiles) > 0))

NextClient ==
  \/ \E mode \in {"single", "batch"} : ModeClick(mode)
  \/ \E files \in SeqsUpTo(ClientNames, MaxClientFiles) : HandleFiles(files)
  \/ \E index \in 1..MaxClientFiles : RemoveFile(index)
  \/ \E value \in ClientInputFormats : InputFormatChange(value)
  \/ \E value \in ClientOutputFormats : OutputFormatChange(value)
  \/ ClickConvert
  \/ \E i \in 1..MaxPending, ok \in BOOLEAN : Respond(i, ok)
  \/ \E i \in 1..MaxPending : FetchFails(i) \/ Finish(i)

SpecClient == InitClient /\ [][NextClient]_vars

\* C16: while a convertFiles call has not returned, the convert button is
\* disabled, whatever the user does meanwhile, so no second call is started.
C16_ButtonDisabledInFlight ==
  /\ clPending # <<>> => clDisabled
  /\ Len(clPending) <= 1

====
